---- MODULE Spec2Model ----
(***************************************************************************)
(* django_jenkins: the XMLTestResult collector (runner.py), the report     *)
(* generation of XMLTestResult.generate_reports and the XML helpers of     *)
(* utils.py (add_cdata, report_testcase, report_testsuite).                *)
(*                                                                         *)
(* Times are integer milliseconds.  A Python attribute that has not been   *)
(* assigned yet is NoAttr; a dict is a function whose DOMAIN is its keys.  *)
(* An exception a call raises is recorded in the variable raised.          *)
(***************************************************************************)
EXTENDS Integers, Sequences, FiniteSets, TLC

\* ------------------------------------------------------------------ bounds
MaxTime == 1
MaxRecords == 2
MaxStops == 2
MaxLen == 5
MaxRoom == 3

\* ------------------------------------------------------------- test cases
\* The TestCase objects the driver hands to the callbacks: class, method
\* name (_testMethodName) and the module the class lives in (__module__).
Tests ==
  { [cls |-> "A", name |-> "test_x"],
    [cls |-> "B", name |-> "test_x"],
    [cls |-> "C", name |-> "test_y"] }

ModuleOf(test) == IF test.cls = "C" THEN "__main__" ELSE "app.tests"

NoAttr == 0 - 1

VARIABLES
  successes,        \* XMLTestResult.successes: list of (test, 'OK')
  failures,         \* unittest.TestResult.failures
  errors,           \* unittest.TestResult.errors
  timing,           \* XMLTestResult.timing: dict test -> elapsed
  start_test_time,  \* XMLTestResult.start_test_time (NoAttr until startTest)
  stop_test_time,   \* XMLTestResult.stop_test_time
  now,              \* what time.time() returns
  raised,           \* exception raised by the last call, "none" otherwise
  phase,            \* "running" | "reported" (generate_reports has run)
  executed,         \* history: the outcome callbacks made, <<test, outcome>>
  startedAt,        \* history: test -> time.time() at its latest startTest
  stops,            \* history: the stopTest calls that stored a timing
  output_dir,       \* the path test_runner.output_dir: "missing"|"dir"|"file"
  makedirsBlocked,  \* environment: os.makedirs(output_dir) raises OSError
  files,            \* report files on disk: suite name -> content
  unwritable,       \* environment: suites whose report file cannot be opened
  diskRoom,         \* environment: lines the disk still takes
  reports,          \* what generate_reports built: suite name -> document
  content,          \* add_cdata: the content argument
  sections,         \* add_cdata: the CDATA sections appended to append_to
  pending,          \* report writing: the documents still to be written
  written,          \* report writing: suite name -> outcome of its write
  pc,               \* run_tests: the step it is at ("idle": not running)
  with_reports,     \* CITestSuiteRunner.with_reports
  test_suite,       \* run_tests: the suite build_suite returned
  idx,              \* the test of test_suite the test run is at
  calls,            \* history: the steps of run_tests so far, <<name, arg>>
  old_config,       \* run_tests: what setup_databases returned
  run_exc,          \* the exception leaving run_tests, "none" otherwise
  returned          \* what run_tests returned (NoAttr until it returns)

vars ==
  << successes, failures, errors, timing, start_test_time, stop_test_time, now,
     raised, phase, executed, startedAt, stops, output_dir,
     makedirsBlocked, files, unwritable, diskRoom, reports, content, sections,
     pending, written, pc, with_reports, test_suite, idx, calls, old_config,
     run_exc, returned >>

collectorVars ==
  << successes, failures, errors, timing, start_test_time, stop_test_time, now,
     executed, startedAt, stops >>

fsVars == << output_dir, makedirsBlocked, files, unwritable, diskRoom >>

cdataVars == << content, sections >>

writeVars == << pending, written >>

runnerVars ==
  << pc, with_reports, test_suite, idx, calls, old_config, run_exc, returned >>

\* No run_tests is in progress.
RunnerIdle ==
  /\ pc = "idle"
  /\ with_reports = FALSE
  /\ test_suite = <<>>
  /\ idx = 0
  /\ calls = <<>>
  /\ old_config = "none"
  /\ run_exc = "none"
  /\ returned = NoAttr

\* The empty dict / empty mapping.
EmptyMap == [k \in {} |-> 0]

\* Exception infos (sys.exc_info()) the driver passes to addFailure/addError:
\* <<type name, message, formatted traceback>>.
ErrInfos ==
  { <<"AssertionError", "1 != 2", <<"a", "]", "]", ">">> >>,
    <<"ZeroDivisionError", "division by zero", <<"]", "]", ">", "b">> >> }

\* d[k] = v on a dict.
DictSet(d, k, v) == [x \in (DOMAIN d) \cup {k} |-> IF x = k THEN v ELSE d[x]]

\* ------------------------------------------------ unittest.TestResult base
\* unittest.TestResult.addFailure(self, test, err) and addError(self, test,
\* err): called with the positional arguments args after self.  Both take
\* exactly (test, err); any other argument count is a TypeError and the list
\* is left as it was.  Otherwise (test, formatted traceback) is appended.
TestResult_addOutcome(list, args) ==
  IF Len(args) # 2
    THEN [raised |-> "TypeError", list |-> list]
    ELSE [raised |-> "none", list |-> Append(list, <<args[1], args[2][3]>>)]

\* ------------------------------------------------------------ XMLTestResult
\* runner.py 34-38
XMLTestResult_init ==
  /\ successes = <<>>
  /\ failures = <<>>
  /\ errors = <<>>
  /\ timing = EmptyMap
  /\ start_test_time = NoAttr
  /\ stop_test_time = NoAttr

\* time.time() moves on between calls.
Tick ==
  /\ now < MaxTime
  /\ now' = now + 1
  /\ UNCHANGED << successes, failures, errors, timing, start_test_time,
                  stop_test_time, raised, phase, executed, startedAt,
                  stops, reports >>
  /\ UNCHANGED << fsVars, cdataVars, writeVars >>

\* runner.py 40-42
startTest(test) ==
  /\ phase = "running"
  /\ start_test_time' = now
  /\ startedAt' = [startedAt EXCEPT ![test] = now]
  /\ raised' = "none"
  /\ UNCHANGED << successes, failures, errors, timing, stop_test_time, now,
                  phase, executed, stops, reports >>
  /\ UNCHANGED << fsVars, cdataVars, writeVars >>

\* runner.py 44-47: line 45 assigns stop_test_time, line 46 reads
\* self.start_test_time (AttributeError when no startTest has run) and
\* stores the difference under the key test.
stopTest(test) ==
  /\ phase = "running"
  /\ stop_test_time' = now
  /\ \/ /\ start_test_time = NoAttr
        /\ raised' = "AttributeError"
        /\ UNCHANGED << timing, stops >>
     \/ /\ start_test_time # NoAttr
        /\ Len(stops) < MaxStops
        /\ timing' = DictSet(timing, test, now - start_test_time)
        /\ stops' = Append(stops, <<test, now - start_test_time>>)
        /\ raised' = "none"
  /\ UNCHANGED << successes, failures, errors, start_test_time, now, phase,
                  executed, startedAt, reports >>
  /\ UNCHANGED << fsVars, cdataVars, writeVars >>

\* runner.py 49-53 (the signal has no receiver in this module; the base
\* class's addSuccess does nothing)
addSuccess(test) ==
  /\ phase = "running"
  /\ Len(executed) < MaxRecords
  /\ successes' = Append(successes, <<test, "OK">>)
  /\ executed' = Append(executed, <<test, "success">>)
  /\ raised' = "none"
  /\ UNCHANGED << failures, errors, timing, start_test_time, stop_test_time,
                  now, phase, startedAt, stops, reports >>
  /\ UNCHANGED << fsVars, cdataVars, writeVars >>

\* runner.py 55-58: the base class is called with test alone.
addFailure(test, err) ==
  LET r == TestResult_addOutcome(failures, <<test>>) IN
  /\ phase = "running"
  /\ Len(executed) < MaxRecords
  /\ failures' = r.list
  /\ raised' = r.raised
  /\ executed' = Append(executed, <<test, "failure">>)
  /\ UNCHANGED << successes, errors, timing, start_test_time, stop_test_time,
                  now, phase, startedAt, stops, reports >>
  /\ UNCHANGED << fsVars, cdataVars, writeVars >>

\* runner.py 60-63: the base class is called with test alone.
addError(test, err) ==
  LET r == TestResult_addOutcome(errors, <<test>>) IN
  /\ phase = "running"
  /\ Len(executed) < MaxRecords
  /\ errors' = r.list
  /\ raised' = r.raised
  /\ executed' = Append(executed, <<test, "error">>)
  /\ UNCHANGED << successes, failures, timing, start_test_time, stop_test_time,
                  now, phase, startedAt, stops, reports >>
  /\ UNCHANGED << fsVars, cdataVars, writeVars >>

\* runner.py 76-80: the name a test is grouped under, as the list of the
\* strings concatenated: module + '.' (dropped when it is '__main__.')
\* followed by _testMethodName.
testcase_name(testcase) ==
  LET module == <<ModuleOf(testcase), ".">> IN
  (IF module = <<"__main__", ".">> THEN <<>> ELSE module) \o <<testcase.name>>

\* runner.py 82-84, for the test_info entries of tests in order.
RECURSIVE group_tests(_, _)
group_tests(tests, tests_by_testcase) ==
  IF tests = <<>>
    THEN tests_by_testcase
    ELSE LET test_info == Head(tests)
             name == testcase_name(test_info[1])
             d == IF name \notin DOMAIN tests_by_testcase
                    THEN DictSet(tests_by_testcase, name, <<>>)
                    ELSE tests_by_testcase
         IN  group_tests(Tail(tests), [d EXCEPT ![name] = Append(@, test_info)])

\* runner.py 65-86: successes first, then failures, then errors.
get_info_by_testcase(succ, fail, err) ==
  group_tests(succ \o fail \o err, EmptyMap)

\* ------------------------------------------------------------------ utils.py
\* str(n): the decimal digits of n >= 0.
RECURSIVE str(_)
str(n) == IF n < 10 THEN <<n>> ELSE Append(str(n \div 10), n % 10)

\* '%.3f' % seconds, for a time of ms milliseconds: the digits before the
\* point and the three digits after it.
Format3f(ms) ==
  [whole |-> str(ms \div 1000),
   frac |-> <<(ms \div 100) % 10, (ms \div 10) % 10, ms % 10>>]

RECURSIVE sum(_)
sum(xs) == IF xs = <<>> THEN 0 ELSE Head(xs) + sum(Tail(xs))

\* utils.py 43-63.  Line 53-54 looks every test up in timing: a test that is
\* not a key raises KeyError, after name and tests have been set.
report_testsuite(suite_name, tests, timing_) ==
  LET named == [tag |-> "testsuite", name |-> suite_name,
                tests |-> str(Len(tests))]
  IN  IF \E i \in 1..Len(tests) : tests[i][1] \notin DOMAIN timing_
        THEN [raised |-> "KeyError", element |-> named]
        ELSE [raised |-> "none",
              element |-> [tag |-> "testsuite", name |-> suite_name,
                           tests |-> str(Len(tests)),
                           time |-> Format3f(sum([i \in 1..Len(tests) |->
                                                    timing_[tests[i][1]]]))]]

\* The attributes a TestCase object has (unittest.TestCase): no test_method.
TestCaseAttrs == {"_testMethodName", "__module__", "id"}

\* The attributes of a test_info entry, a tuple (test, text).
TupleAttrs == {"count", "index"}

\* utils.py 21-40.  Lines 24-27 create the element, append it and set
\* classname.  Line 28 reads test_result[0].test_method and line 29 calls
\* test_result.get_elapsed_time(): an attribute the object does not have is
\* an AttributeError, which ends the function there.  Lines 31-40 read
\* test_result.outcome, .err and .get_error_info() likewise.
report_testcase(suite_name, test_result, timing_) ==
  LET created == [tag |-> "testcase", classname |-> suite_name]
  IN  IF "test_method" \notin TestCaseAttrs
        THEN [raised |-> "AttributeError", line |-> 28, element |-> created]
      ELSE IF "get_elapsed_time" \notin TupleAttrs
        THEN [raised |-> "AttributeError", line |-> 29, element |-> created]
      ELSE [raised |-> "AttributeError", line |-> 31, element |-> created]

\* utils.py 2-18: add_cdata.  split(']]>') cuts content at each leftmost,
\* non-overlapping occurrence of the terminator.
Terminator == <<"]", "]", ">">>

StartsWith(xs, pre) ==
  /\ Len(xs) >= Len(pre)
  /\ SubSeq(xs, 1, Len(pre)) = pre

\* content.split(sep): cur is the entry being collected.
RECURSIVE split_from(_, _, _)
split_from(rest, sep, cur) ==
  IF rest = <<>> THEN <<cur>>
  ELSE IF StartsWith(rest, sep)
    THEN <<cur>> \o split_from(SubSeq(rest, Len(sep) + 1, Len(rest)), sep, <<>>)
  ELSE split_from(Tail(rest), sep, Append(cur, Head(rest)))

split(text, sep) == split_from(text, sep, <<>>)

\* utils.py 8-15: the loop over enumerate(content), from index on (1-based
\* here; index < len(content) - 1 in the source is index < Len(entries)).
RECURSIVE cdata_loop(_, _)
cdata_loop(entries, index) ==
  IF index > Len(entries) THEN <<>>
  ELSE LET entry == entries[index] IN
       IF entry = <<>>
         THEN cdata_loop(entries, index + 1)
         ELSE (IF index < Len(entries)
                 THEN << entry \o <<"]", "]">>, <<">">> >>
                 ELSE << entry >>) \o cdata_loop(entries, index + 1)

\* add_cdata without the split: the whole content in one CDATA section.
add_cdata_unsplit(text) == IF text = <<>> THEN <<>> ELSE <<text>>

\* utils.py 2-18: the CDATA sections appended to append_to, in order.
add_cdata(text) == cdata_loop(split(text, Terminator), 1)

\* ---------------------------------------------------------- generate_reports
\* The names grouping can produce: one report file per name.
SuiteNames == { testcase_name(t) : t \in Tests }

\* What a report file left by an earlier run holds.
PriorContent == << "prior" >>

\* The functions utils.py defines.
UtilsNames == {"add_cdata", "report_testcase", "report_testsuite"}

\* runner.py 100-101: report_testcase for tests[index..]; the first call
\* that raises ends the loop.
RECURSIVE report_testcases(_, _, _, _)
report_testcases(suite, tests, timing_, index) ==
  IF index > Len(tests) THEN [raised |-> "none", elements |-> <<>>]
  ELSE LET tc == report_testcase(suite, tests[index], timing_) IN
       IF tc.raised # "none"
         THEN [raised |-> tc.raised, elements |-> <<tc.element>>]
         ELSE LET rest == report_testcases(suite, tests, timing_, index + 1)
              IN  [raised |-> rest.raised,
                   elements |-> <<tc.element>> \o rest.elements]

\* runner.py 103: doc.toprettyxml(indent='\t'), as the lines of the text: the
\* XML declaration, then the testsuite element with its children.
toprettyxml(doc) ==
  IF doc.testcases = <<>>
    THEN << "<?xml version=1.0 ?>", [empty |-> doc.testsuite] >>
    ELSE << "<?xml version=1.0 ?>", [open |-> doc.testsuite] >>
         \o doc.testcases \o << [close |-> "testsuite"] >>

Min(a, b) == IF a < b THEN a ELSE b

\* The write step followed by a rollback: when the file cannot be opened or
\* written, every report file is removed.
write_report_rollback(fs, suite, xml_content) ==
  IF fs.output_dir # "dir" \/ suite \in fs.unwritable
    THEN [raised |-> "IOError", fs |-> [fs EXCEPT !.files = EmptyMap]]
    ELSE LET n == IF Len(xml_content) < fs.diskRoom THEN Len(xml_content)
                  ELSE fs.diskRoom IN
         IF n < Len(xml_content)
           THEN [raised |-> "IOError", fs |-> [fs EXCEPT !.files = EmptyMap]]
           ELSE [raised |-> "none",
                 fs |-> [fs EXCEPT !.files = DictSet(@, suite, xml_content),
                                   !.diskRoom = @ - n]]

\* runner.py 105-110 on the file system fs.  file(path, 'w') raises IOError
\* when the directory part of the path is not a directory or the file may
\* not be written; otherwise it creates the file or truncates it to nothing.
\* write() then puts the lines the disk has room for and raises IOError when
\* that is not all of them; close() runs either way.
write_report(fs, suite, xml_content) ==
  IF fs.output_dir # "dir" \/ suite \in fs.unwritable
    THEN [raised |-> "IOError", fs |-> fs]
    ELSE LET n == Min(Len(xml_content), fs.diskRoom) IN
         [raised |-> IF n < Len(xml_content) THEN "IOError" ELSE "none",
          fs |-> [fs EXCEPT !.files = DictSet(@, suite, SubSeq(xml_content, 1, n)),
                            !.diskRoom = @ - n]]

\* runner.py 95-110: the loop over all_results.items(), taken in order.
\* An exception in the body leaves the loop and generate_reports.  built
\* maps each suite the loop has reached to the document built for it and the
\* exception its iteration raised ("none" when it completed).
RECURSIVE generate_loop(_, _, _, _, _)
generate_loop(order, all_results, timing_, fs, built) ==
  IF order = <<>> THEN [raised |-> "none", fs |-> fs, reports |-> built]
  ELSE
    LET suite == Head(order)
        tests == all_results[suite]
        ts == report_testsuite(suite, tests, timing_)
        tcs == report_testcases(suite, tests, timing_, 1)
        doc == [testsuite |-> ts.element, testcases |-> tcs.elements]
        w == write_report(fs, suite, toprettyxml(doc))
        entry(exc) == [testsuite |-> ts.element, testcases |-> tcs.elements,
                       raised |-> exc]
    IN  IF ts.raised # "none"
          THEN [raised |-> ts.raised, fs |-> fs,
                reports |-> DictSet(built, suite,
                                    [testsuite |-> ts.element, testcases |-> <<>>,
                                     raised |-> ts.raised])]
        ELSE IF tcs.raised # "none"
          THEN [raised |-> tcs.raised, fs |-> fs,
                reports |-> DictSet(built, suite, entry(tcs.raised))]
        ELSE IF "report_output" \notin UtilsNames
          THEN [raised |-> "AttributeError", fs |-> fs,
                reports |-> DictSet(built, suite, entry("AttributeError"))]
        ELSE IF w.raised # "none"
          THEN [raised |-> w.raised, fs |-> w.fs,
                reports |-> DictSet(built, suite, entry(w.raised))]
        ELSE generate_loop(Tail(order), all_results, timing_, w.fs,
                           DictSet(built, suite, entry("none")))

\* The orders in which a dict with the keys S can be iterated.
Orders(S) ==
  { f \in [1..Cardinality(S) -> S] : \A i, j \in 1..Cardinality(S) : f[i] = f[j] => i = j }

\* runner.py 88-110.  Line 92-93: makedirs is called only when nothing exists
\* at output_dir, and raises OSError when the directory cannot be created.
generate_reports(order) ==
  LET all_results == get_info_by_testcase(successes, failures, errors)
      made == IF output_dir = "missing" THEN "dir" ELSE output_dir
      fs == [output_dir |-> made, files |-> files, unwritable |-> unwritable,
             diskRoom |-> diskRoom]
      r == generate_loop(order, all_results, timing, fs, EmptyMap)
  IN  /\ phase = "running"
      /\ order \in Orders(DOMAIN all_results)
      /\ phase' = "reported"
      /\ \/ /\ output_dir = "missing" /\ makedirsBlocked
            /\ raised' = "OSError"
            /\ UNCHANGED << output_dir, files, diskRoom, reports >>
         \/ /\ ~(output_dir = "missing" /\ makedirsBlocked)
            /\ raised' = r.raised
            /\ output_dir' = made
            /\ files' = r.fs.files
            /\ diskRoom' = r.fs.diskRoom
            /\ reports' = r.reports
      /\ UNCHANGED << makedirsBlocked, unwritable >>
      /\ UNCHANGED << collectorVars, cdataVars, writeVars >>

\* --------------------------------------------------------------- the program
Init ==
  /\ XMLTestResult_init
  /\ now = 0
  /\ raised = "none"
  /\ phase = "running"
  /\ executed = <<>>
  /\ startedAt = [t \in Tests |-> NoAttr]
  /\ stops = <<>>
  /\ output_dir \in {"missing", "dir", "file"}
  /\ makedirsBlocked \in (IF output_dir = "missing" THEN BOOLEAN ELSE {FALSE})
  /\ files = EmptyMap
  /\ unwritable = {}
  /\ diskRoom = MaxRoom
  /\ reports = EmptyMap
  /\ content = <<>>
  /\ sections = <<>>
  /\ pending = {}
  /\ written = EmptyMap
  /\ RunnerIdle

\* The orders generate_reports can meet, for any set of suites.
AnyOrder == UNION { Orders(S) : S \in SUBSET SuiteNames }

Next ==
  \/ Tick /\ UNCHANGED runnerVars
  \/ \E test \in Tests : startTest(test) /\ UNCHANGED runnerVars
  \/ \E test \in Tests : stopTest(test) /\ UNCHANGED runnerVars
  \/ \E test \in Tests : addSuccess(test) /\ UNCHANGED runnerVars
  \/ \E test \in Tests, err \in ErrInfos : addFailure(test, err) /\ UNCHANGED runnerVars
  \/ \E test \in Tests, err \in ErrInfos : addError(test, err) /\ UNCHANGED runnerVars
  \/ \E order \in AnyOrder : generate_reports(order) /\ UNCHANGED runnerVars

Spec == Init /\ [][Next]_vars

\* ------------------------------------------------------- add_cdata on its own
Alphabet == {"]", ">", "a"}

Strings(n) == UNION { [1..k -> Alphabet] : k \in 0..n }

\* Every diagnostic text of at most MaxLen characters.
InitCdata ==
  /\ XMLTestResult_init
  /\ now = 0
  /\ raised = "none"
  /\ phase = "cdata"
  /\ executed = <<>>
  /\ startedAt = [t \in Tests |-> NoAttr]
  /\ stops = <<>>
  /\ output_dir = "dir"
  /\ makedirsBlocked = FALSE
  /\ files = EmptyMap
  /\ unwritable = {}
  /\ diskRoom = MaxRoom
  /\ reports = EmptyMap
  /\ content \in Strings(MaxLen)
  /\ sections = <<>>
  /\ pending = {}
  /\ written = EmptyMap
  /\ RunnerIdle

\* utils.py 40: add_cdata(xml_document, error_info, failure)
AddCdata ==
  /\ phase = "cdata"
  /\ sections' = add_cdata(content)
  /\ phase' = "cdata_done"
  /\ UNCHANGED << content, raised, reports >>
  /\ UNCHANGED << collectorVars, fsVars, writeVars, runnerVars >>

NextCdata == AddCdata

SpecCdata == InitCdata /\ [][NextCdata]_vars

\* ------------------------------------ the report file writing on its own
\* A document generate_reports hands to the write step: the testsuite
\* element of a suite, serialized.
SuiteDocument(suite) ==
  toprettyxml([testsuite |-> report_testsuite(suite, <<>>, EmptyMap).element,
               testcases |-> <<>>])

\* Every file system the write step of runner.py 105-110 can meet once the
\* directory step (92-93) is over: output_dir exists, as a directory or not.
InitWrite ==
  /\ XMLTestResult_init
  /\ now = 0
  /\ raised = "none"
  /\ phase = "writing"
  /\ executed = <<>>
  /\ startedAt = [t \in Tests |-> NoAttr]
  /\ stops = <<>>
  /\ output_dir \in {"dir", "file"}
  /\ makedirsBlocked = FALSE
  /\ files \in (IF output_dir = "dir"
                  THEN UNION { [S -> {PriorContent}] : S \in SUBSET SuiteNames }
                  ELSE {EmptyMap})
  /\ unwritable \in SUBSET SuiteNames
  /\ diskRoom \in 0..MaxRoom
  /\ reports = EmptyMap
  /\ content = <<>>
  /\ sections = <<>>
  /\ pending = SuiteNames
  /\ written = EmptyMap
  /\ RunnerIdle

\* runner.py 105-110 for one suite of the loop.  written remembers what the
\* file held before the step and the text handed to write(); an exception
\* leaves the loop, so no later suite is written.
WriteReportFile(suite) ==
  LET fs == [output_dir |-> output_dir, files |-> files,
             unwritable |-> unwritable, diskRoom |-> diskRoom]
      xml_content == SuiteDocument(suite)
      w == write_report(fs, suite, xml_content)
  IN  /\ phase = "writing"
      /\ raised = "none"
      /\ suite \in pending
      /\ files' = w.fs.files
      /\ diskRoom' = w.fs.diskRoom
      /\ raised' = w.raised
      /\ pending' = pending \ {suite}
      /\ written' = DictSet(written, suite,
                            [raised |-> w.raised,
                             existed |-> suite \in DOMAIN files,
                             before |-> IF suite \in DOMAIN files
                                          THEN files[suite] ELSE <<>>,
                             xml_content |-> xml_content])
      /\ UNCHANGED << output_dir, makedirsBlocked, unwritable, phase, reports >>
      /\ UNCHANGED << collectorVars, cdataVars, runnerVars >>

NextWrite == \E suite \in SuiteNames : WriteReportFile(suite)

SpecWrite == InitWrite /\ [][NextWrite]_vars

\* ------------------------------------------- CITestSuiteRunner.run_tests
\* The outcomes a test of the suite can have when the driver runs it.  A
\* skipped test is reported to the base class's addSkip alone.
RunOutcomes == {"success", "failure", "error", "skip"}

\* The suites the receivers of signals.build_suite can fill in: at most as
\* many tests as the history variables take.
Suites ==
  UNION { [1..n -> Tests \X RunOutcomes] : n \in 0..Min(MaxRecords, MaxStops) }

\* What setup_databases can return.
Configs == {"db_config_1", "db_config_2"}

\* One more step in the history of the run.
Called(name, arg) == calls' = Append(calls, <<name, arg>>)

\* The condition of line 164 taken as always true.
countTestCases_nonzero(s) == 1

\* runner.py 164: suite.countTestCases()
countTestCases(s) == Len(s)

\* runner.py 162, 142-144
R_setup_test_environment ==
  /\ pc = "run_tests"
  /\ Called("setup_test_environment", "")
  /\ pc' = "build_suite"
  /\ UNCHANGED << with_reports, test_suite, idx, old_config, run_exc, returned >>
  /\ UNCHANGED << collectorVars, fsVars, cdataVars, writeVars, raised, phase, reports >>

\* runner.py 163-164, 156-159: the suite is what the receivers of
\* signals.build_suite put in it (reorder_suite keeps its tests); line 164
\* then takes one branch.
R_build_suite ==
  /\ pc = "build_suite"
  /\ test_suite' \in Suites
  /\ Called("build_suite", "")
  /\ pc' = IF countTestCases(test_suite') # 0
             THEN "setup_databases" ELSE "teardown_test_environment"
  /\ UNCHANGED << with_reports, idx, old_config, run_exc, returned >>
  /\ UNCHANGED << collectorVars, fsVars, cdataVars, writeVars, raised, phase, reports >>

\* runner.py 165, 150-154
R_setup_databases ==
  /\ pc = "setup_databases"
  /\ old_config' \in Configs
  /\ Called("setup_databases", old_config')
  /\ pc' = "before_suite_run"
  /\ UNCHANGED << with_reports, test_suite, idx, run_exc, returned >>
  /\ UNCHANGED << collectorVars, fsVars, cdataVars, writeVars, raised, phase, reports >>

\* runner.py 166, 175: signals.before_suite_run.send
R_before_suite_run ==
  /\ pc = "before_suite_run"
  /\ Called("before_suite_run", "")
  /\ pc' = "tests"
  /\ idx' = 1
  /\ UNCHANGED << with_reports, test_suite, old_config, run_exc, returned >>
  /\ UNCHANGED << collectorVars, fsVars, cdataVars, writeVars, raised, phase, reports >>

\* runner.py 126: super(XMLTestRunner, self).run(test) runs each test of the
\* suite as unittest's TestCase.run does: result.startTest(test) ...
R_startTest ==
  /\ pc = "tests"
  /\ idx <= Len(test_suite)
  /\ startTest(test_suite[idx][1])
  /\ Called("startTest", test_suite[idx][1].cls)
  /\ pc' = "outcome"
  /\ UNCHANGED << with_reports, test_suite, idx, old_config, run_exc, returned >>

\* ... then the callback of the test's outcome; an exception the callback
\* raises is not caught by TestCase.run ...
R_outcome ==
  LET test == test_suite[idx][1]
      outcome == test_suite[idx][2]
  IN  /\ pc = "outcome"
      /\ \/ outcome = "success" /\ addSuccess(test)
         \/ outcome = "failure" /\ \E err \in ErrInfos : addFailure(test, err)
         \/ outcome = "error" /\ \E err \in ErrInfos : addError(test, err)
         \/ /\ outcome = "skip"
            /\ raised' = "none"
            /\ UNCHANGED << collectorVars, fsVars, cdataVars, writeVars, phase,
                            reports >>
      /\ Called(outcome, test.cls)
      /\ run_exc' = raised'
      /\ pc' = "stop"
      /\ UNCHANGED << with_reports, test_suite, idx, old_config, returned >>

\* ... then, in a finally clause, result.stopTest(test); after it an
\* exception of the outcome callback goes on up and leaves run_tests.
R_stopTest ==
  /\ pc = "stop"
  /\ stopTest(test_suite[idx][1])
  /\ Called("stopTest", test_suite[idx][1].cls)
  /\ pc' = IF run_exc # "none" THEN "raised" ELSE "tests"
  /\ idx' = IF run_exc # "none" THEN idx ELSE idx + 1
  /\ UNCHANGED << with_reports, test_suite, old_config, run_exc, returned >>

\* runner.py 126-129: the base run has returned; generate_reports is called
\* if with_reports, and an exception of it leaves run_tests.
R_run_done ==
  /\ pc = "tests"
  /\ idx > Len(test_suite)
  /\ \/ /\ with_reports
        /\ \E order \in AnyOrder : generate_reports(order)
        /\ Called("generate_reports", "")
        /\ run_exc' = raised'
        /\ pc' = IF raised' # "none" THEN "raised" ELSE "after_suite_run"
     \/ /\ ~with_reports
        /\ pc' = "after_suite_run"
        /\ UNCHANGED << collectorVars, fsVars, cdataVars, writeVars, raised,
                        phase, reports, calls, run_exc >>
  /\ UNCHANGED << with_reports, test_suite, idx, old_config, returned >>

\* runner.py 181: signals.after_suite_run.send
R_after_suite_run ==
  /\ pc = "after_suite_run"
  /\ Called("after_suite_run", "")
  /\ pc' = "teardown_databases"
  /\ UNCHANGED << with_reports, test_suite, idx, old_config, run_exc, returned >>
  /\ UNCHANGED << collectorVars, fsVars, cdataVars, writeVars, raised, phase, reports >>

\* Line 167 left out: the databases are not torn down.
R_teardown_databases_skipped ==
  /\ pc = "teardown_databases"
  /\ pc' = "teardown_test_environment"
  /\ UNCHANGED << with_reports, test_suite, idx, calls, old_config, run_exc, returned >>
  /\ UNCHANGED << collectorVars, fsVars, cdataVars, writeVars, raised, phase, reports >>

\* runner.py 167: self.teardown_databases(old_config)
R_teardown_databases ==
  /\ pc = "teardown_databases"
  /\ Called("teardown_databases", old_config)
  /\ pc' = "teardown_test_environment"
  /\ UNCHANGED << with_reports, test_suite, idx, old_config, run_exc, returned >>
  /\ UNCHANGED << collectorVars, fsVars, cdataVars, writeVars, raised, phase, reports >>

\* runner.py 168-169 and 171-172, 146-148: teardown_test_environment, then
\* return suite_result(suite, result) = len(failures) + len(errors), or 0
\* for the empty suite.
R_teardown_test_environment ==
  /\ pc = "teardown_test_environment"
  /\ Called("teardown_test_environment", "")
  /\ returned' = IF countTestCases(test_suite) # 0
                   THEN Len(failures) + Len(errors) ELSE 0
  /\ pc' = "returned"
  /\ UNCHANGED << with_reports, test_suite, idx, old_config, run_exc >>
  /\ UNCHANGED << collectorVars, fsVars, cdataVars, writeVars, raised, phase, reports >>

\* runner.py 136-140: a CITestSuiteRunner about to run_tests, with a fresh
\* XMLTestResult (117, 34-38).
InitRun ==
  /\ XMLTestResult_init
  /\ now = 0
  /\ raised = "none"
  /\ phase = "running"
  /\ executed = <<>>
  /\ startedAt = [t \in Tests |-> NoAttr]
  /\ stops = <<>>
  /\ output_dir \in {"missing", "dir", "file"}
  /\ makedirsBlocked \in (IF output_dir = "missing" THEN BOOLEAN ELSE {FALSE})
  /\ files = EmptyMap
  /\ unwritable = {}
  /\ diskRoom = MaxRoom
  /\ reports = EmptyMap
  /\ content = <<>>
  /\ sections = <<>>
  /\ pending = {}
  /\ written = EmptyMap
  /\ pc = "run_tests"
  /\ with_reports \in BOOLEAN
  /\ test_suite = <<>>
  /\ idx = 0
  /\ calls = <<>>
  /\ old_config = "none"
  /\ run_exc = "none"
  /\ returned = NoAttr

NextRun ==
  \/ R_setup_test_environment
  \/ R_build_suite
  \/ R_setup_databases
  \/ R_before_suite_run
  \/ R_startTest
  \/ R_outcome
  \/ R_stopTest
  \/ R_run_done
  \/ R_after_suite_run
  \/ R_teardown_databases
  \/ R_teardown_test_environment

SpecRun == InitRun /\ [][NextRun]_vars


\* ====================================================================== claims
\* What _get_info_by_testcase returns in the current state.
by_testcase == get_info_by_testcase(successes, failures, errors)

\* How many entries of the list xs are about test.
CountTest(xs, test) == Cardinality({ i \in 1..Len(xs) : xs[i][1] = test })

\* The tests of the entries of xs, in order.
TestsOf(xs) == [i \in 1..Len(xs) |-> xs[i][1]]

RECURSIVE ExecutedIn(_, _)
\* The tests of the executions in log that belong to the suite name, in
\* execution order.
ExecutedIn(log, name) ==
  IF log = <<>> THEN <<>>
  ELSE (IF testcase_name(Head(log)[1]) = name THEN <<Head(log)[1]>> ELSE <<>>)
       \o ExecutedIn(Tail(log), name)

\* C1: every executed test, whatever its outcome, is in the grouping exactly
\* once, under its own suite name, and the grouping holds nothing else: the
\* groups hold as many records of each test as executions of it were
\* reported, all of them under testcase_name of the test.
C1_EveryExecutionGroupedOnce ==
  /\ \A t \in Tests :
       (IF testcase_name(t) \in DOMAIN by_testcase
          THEN CountTest(by_testcase[testcase_name(t)], t) ELSE 0)
       = CountTest(executed, t)
  /\ \A k \in DOMAIN by_testcase : \A i \in 1..Len(by_testcase[k]) :
       testcase_name(by_testcase[k][i][1]) = k

C3_ElapsedFromOwnStart ==
  [][ Len(stops') > Len(stops) =>
        LET id == stops'[Len(stops')][1] IN
        startedAt[id] # NoAttr => timing'[id] = stop_test_time' - startedAt[id]
    ]_vars

RECURSIVE Concat(_)
Concat(xss) == IF xss = <<>> THEN <<>> ELSE Head(xss) \o Concat(Tail(xss))

Contains(xs, sub) ==
  \E i \in 1..(Len(xs) - Len(sub) + 1) : SubSeq(xs, i, i + Len(sub) - 1) = sub

\* C4: CDATA round trip: the contents of the sections add_cdata appends,
\* concatenated in order, are the original text.
C4_CdataRoundTrip ==
  phase = "cdata_done" => Concat(sections) = content

\* C5: no CDATA section add_cdata emits holds the terminator ]]> in its
\* content.
C5_NoSectionHoldsTerminator ==
  phase = "cdata_done" => \A i \in 1..Len(sections) : ~Contains(sections[i], Terminator)

\* C5 witness: a text with two terminators, cut into several sections.
C5_Witness ==
  /\ phase = "cdata_done"
  /\ Contains(content, Terminator)
  /\ Len(content) > Len(Terminator)
  /\ Len(sections) >= 3

\* Every test of the group of suite has a timing, so that report_testsuite
\* does not raise.
TimingKnown(suite) ==
  \A i \in 1..Len(by_testcase[suite]) : by_testcase[suite][i][1] \in DOMAIN timing

\* The testcase element is complete and its children fit the record: none
\* for a success, one failure or error element otherwise.
ChildrenFit(element, test_info) ==
  /\ {"name", "time", "children"} \subseteq DOMAIN element
  /\ test_info[2] = "OK" => element.children = <<>>
  /\ test_info[2] # "OK" =>
       /\ Len(element.children) = 1
       /\ element.children[1].tag \in {"failure", "error"}
       /\ {"type", "message"} \subseteq DOMAIN element.children[1]

\* C6: for every record of a group report generation produces one testcase
\* element, with no failure/error child for a success and exactly one for a
\* failure or an error.
C6_TestcasePerRecord ==
  phase = "reported" =>
    \A s \in DOMAIN reports :
      TimingKnown(s) =>
        /\ Len(reports[s].testcases) = Len(by_testcase[s])
        /\ \A i \in 1..Len(by_testcase[s]) :
             ChildrenFit(reports[s].testcases[i], by_testcase[s][i])

\* The elapsed times stopTest stored for the executions of the tests of suite.
RECURSIVE ElapsedIn(_, _)
ElapsedIn(log, suite) ==
  IF log = <<>> THEN <<>>
  ELSE (IF testcase_name(Head(log)[1]) = suite THEN <<Head(log)[2]>> ELSE <<>>)
       \o ElapsedIn(Tail(log), suite)

\* C7: the time attribute of a testsuite element is the sum of the elapsed
\* times of the executions recorded in the group, formatted to 3 decimals,
\* and tests is the number of records; stated for the groups in which every
\* record's execution was timed by exactly one stopTest.
C7_SuiteTimeIsSumOfExecutions ==
  phase = "reported" =>
    \A s \in DOMAIN reports :
      (\A t \in Tests : testcase_name(t) = s =>
          CountTest(by_testcase[s], t) = CountTest(stops, t))
      => /\ "time" \in DOMAIN reports[s].testsuite
         /\ reports[s].testsuite.time = Format3f(sum(ElapsedIn(stops, s)))
         /\ reports[s].testsuite.tests = str(Len(by_testcase[s]))

\* C8: after generate_reports, with the output directory in place and every
\* recorded test timed, the report file of every suite whose own build and
\* write did not fail exists.
C8_OtherSuitesStillReported ==
  (phase = "reported" /\ output_dir = "dir"
     /\ \A s \in DOMAIN by_testcase : TimingKnown(s)) =>
    \A s \in DOMAIN by_testcase :
      (s \notin DOMAIN reports \/ reports[s].raised = "none") => s \in DOMAIN files

\* C9: when the output directory cannot be created (makedirs is blocked, or
\* a non-directory file sits at the path), generate_reports fails and
\* creates no report file.
C9_NoDirectoryNoReports ==
  (phase = "reported" /\ output_dir \in {"missing", "file"}) =>
    /\ raised # "none"
    /\ DOMAIN files = {}

C12_NoTimingWithoutStart ==
  \A t \in DOMAIN timing : startedAt[t] # NoAttr

\* C14: when a recorded test has no timing, report generation tolerates it:
\* it does not fail on the timing lookup.
C14_MissingTimingTolerated ==
  (phase = "reported"
     /\ \E i \in 1..Len(successes) : successes[i][1] \notin DOMAIN timing)
  => raised # "KeyError"

\* C15: the collector is append-only: no callback changes or removes a
\* record, and the elapsed time of a recorded test never changes, also when
\* the same test is run again.
C15_RecordsNeverChange ==
  [][ /\ Len(successes') >= Len(successes)
      /\ \A i \in 1..Len(successes) :
           /\ successes'[i] = successes[i]
           /\ successes[i][1] \in DOMAIN timing =>
                /\ successes[i][1] \in DOMAIN timing'
                /\ timing'[successes[i][1]] = timing[successes[i][1]]
    ]_vars

\* The positions in the history of the run at which step name was taken.
Positions(name) == { i \in 1..Len(calls) : calls[i][1] = name }

\* The callbacks the test run makes on the XMLTestResult.
Callbacks == {"startTest", "stopTest", "success", "failure", "error", "skip"}

\* The names of the steps of the run that are not test callbacks, in order.
RECURSIVE LifecycleOf(_)
LifecycleOf(cs) ==
  IF cs = <<>> THEN <<>>
  ELSE (IF Head(cs)[1] \in Callbacks THEN <<>> ELSE <<Head(cs)[1]>>)
       \o LifecycleOf(Tail(cs))

\* XMLTestRunner.run was entered and has ended, by returning or by an
\* exception.
RunOver ==
  /\ Positions("before_suite_run") # {}
  /\ pc \in {"raised", "after_suite_run", "teardown_databases",
             "teardown_test_environment", "returned"}

\* C13: in XMLTestRunner.run report generation is invoked if and only if
\* with_reports is true; when it is, exactly once and after every test
\* callback of the run.
C13_ReportsIffWithReports ==
  RunOver =>
    /\ Cardinality(Positions("generate_reports")) = (IF with_reports THEN 1 ELSE 0)
    /\ \A g \in Positions("generate_reports") : \A i \in 1..Len(calls) :
         calls[i][1] \in Callbacks => i < g

\* C16: a run_tests on a non-empty suite that returns (no step raised) took
\* the lifecycle steps once each and in order, ran every test between the
\* before_suite_run signal and report generation, generated the reports
\* when with_reports is set, and tore the databases down with the config
\* setup_databases returned.
C16_LifecycleOrder ==
  (pc = "returned" /\ Len(test_suite) > 0) =>
    /\ LifecycleOf(calls) =
         <<"setup_test_environment", "build_suite", "setup_databases",
           "before_suite_run">>
         \o (IF with_reports THEN <<"generate_reports">> ELSE <<>>)
         \o <<"after_suite_run", "teardown_databases",
              "teardown_test_environment">>
    /\ Cardinality(Positions("startTest")) = Len(test_suite)
    /\ \A i \in 1..Len(calls) :
         calls[i][1] \in Callbacks =>
           /\ \A b \in Positions("before_suite_run") : b < i
           /\ \A g \in Positions("generate_reports") \cup Positions("after_suite_run") :
                i < g
    /\ \A i \in Positions("setup_databases"), j \in Positions("teardown_databases") :
         calls[j][2] = calls[i][2]

\* C16 witness: a run over two tests with with_reports set has returned.
C16_Witness ==
  /\ pc = "returned"
  /\ Len(test_suite) = 2
  /\ with_reports
  /\ Positions("generate_reports") # {}

\* C17: when build_suite yields an empty suite, run_tests returns 0 after
\* one teardown_test_environment, and setup_databases, teardown_databases,
\* the before/after_suite_run signals and report generation never occur: no
\* report file is written.
C17_EmptySuiteSkipsRun ==
  (pc \notin {"run_tests", "build_suite"} /\ Len(test_suite) = 0) =>
    /\ \A i \in 1..Len(calls) :
         calls[i][1] \notin {"setup_databases", "teardown_databases",
                             "before_suite_run", "after_suite_run",
                             "generate_reports"}
    /\ phase = "running"
    /\ DOMAIN files = {}
    /\ pc \in {"teardown_test_environment", "returned"}
    /\ pc = "returned" =>
         /\ returned = 0
         /\ Cardinality(Positions("teardown_test_environment")) = 1

\* C17 witness: run_tests has returned from a run whose suite was empty.
C17_Witness ==
  /\ pc = "returned"
  /\ Len(test_suite) = 0
  /\ with_reports

====
